---- MODULE Spec2Model ----
(***************************************************************************)
(* A model of AIDE/floc_model.py: the Chemical class, the module registry  *)
(* (PACl, Alum, HumicAcid), the module constants and the formula           *)
(* functions, each under the u.wraps(ret, args, False) decorator the       *)
(* source gives it.                                                        *)
(*                                                                         *)
(* Numbers.  Python floats are modelled as exact reals: a value is a       *)
(* rational n/d times 2^(en/ed) where that is representable, and otherwise *)
(* a real known only by its sign ("pos", "neg", "frac" for 0 < x < 1,      *)
(* "real" for an undetermined sign), "complex", or "nonfinite" (nan, inf). *)
(* IEEE-754 rounding is not modelled.  A raised Python exception is a      *)
(* value whose kind is the exception's name; every operator propagates the *)
(* exception of its leftmost failing operand, as Python's left-to-right    *)
(* evaluation does.                                                        *)
(***************************************************************************)
EXTENDS Integers, Sequences, FiniteSets, TLC

\* Largest numerator or denominator kept exactly; beyond it only the sign is kept.
IntLimit == 1000000000

Abs(i) == IF i < 0 THEN -i ELSE i

Sgn(i) == IF i < 0 THEN -1 ELSE IF i = 0 THEN 0 ELSE 1

RECURSIVE Gcd(_, _)
Gcd(a, b) == IF b = 0 THEN a ELSE Gcd(b, a % b)

\* a * b stays within IntLimit
Fits(a, b) == a = 0 \/ b = 0 \/ Abs(a) <= IntLimit \div Abs(b)

(***************************************************************************)
(* Values                                                                  *)
(***************************************************************************)
Exceptions == {"AttributeError", "TypeError", "ZeroDivisionError", "DimensionalityError"}

Val(t, n, d, en, ed) == [t |-> t, n |-> n, d |-> d, en |-> en, ed |-> ed, u |-> "", ref |-> ""]

Abstract(t) == Val(t, 0, 1, 0, 1)

Raise(e) == Abstract(e)

None == Abstract("None")

\* an attribute that was never assigned
Unset == Abstract("unset")

\* a reference to a Chemical object
ChemRef(id) == [Abstract("chem") EXCEPT !.ref = id]

PosReal == Abstract("pos")

NegReal == Abstract("neg")

FracReal == Abstract("frac")

AnyReal == Abstract("real")

Complex == Abstract("complex")

NonFinite == Abstract("nonfinite")

\* the real of sign s whose value is not kept (s = 2: sign not determined)
BySign(s) == CASE s = 1 -> PosReal [] s = -1 -> NegReal [] s = 0 -> Val("num", 0, 1, 0, 1) [] OTHER -> AnyReal

\* the rational n/d, d # 0, in lowest terms
Rat(n, d) ==
    LET g == Gcd(Abs(n), Abs(d))
        s == IF d < 0 THEN -1 ELSE 1
    IN  Val("num", (s * n) \div g, (s * d) \div g, 0, 1)

IntV(n) == Rat(n, 1)

\* 2^k, 0 <= k <= 29
RECURSIVE TwoTo(_)
TwoTo(k) == IF k = 0 THEN 1 ELSE 2 * TwoTo(k - 1)

\* (n/d) * 2^(en/ed) for any integers en, ed > 0: the integer part of the
\* exponent is folded into the coefficient
Surd(n, d, en, ed) ==
    LET f == en \div ed
        r == en % ed
        g == Gcd(r, ed)
        c == IF Abs(f) > 29 THEN BySign(Sgn(n) * Sgn(d))
             ELSE IF f >= 0
                  THEN IF Fits(n, TwoTo(f)) THEN Rat(n * TwoTo(f), d) ELSE BySign(Sgn(n) * Sgn(d))
                  ELSE IF Fits(d, TwoTo(-f)) THEN Rat(n, d * TwoTo(-f)) ELSE BySign(Sgn(n) * Sgn(d))
    IN  IF n = 0 THEN IntV(0)
        ELSE IF c.t # "num" THEN c
        ELSE [c EXCEPT !.en = r \div g, !.ed = ed \div g]

IsExc(v) == v.t \in Exceptions

IsNum(v) == v.t = "num"

\* kinds Python arithmetic accepts
IsNumber(v) == v.t \in {"num", "pos", "neg", "frac", "real", "complex", "nonfinite"}

IsZero(v) == v.t = "num" /\ v.n = 0

\* 1, 0, -1, or 2 when the sign is not determined
Sign(v) == CASE v.t = "num" -> Sgn(v.n)
             [] v.t \in {"pos", "frac"} -> 1
             [] v.t = "neg" -> -1
             [] OTHER -> 2

SignMul(s, t) == IF s = 0 \/ t = 0 THEN 0 ELSE IF s = 2 \/ t = 2 THEN 2 ELSE s * t

\* exact comparison of two rationals without a surd factor; 2 when not decidable
Cmp(a, b) ==
    IF a.t = "num" /\ b.t = "num" /\ a.en = 0 /\ b.en = 0 /\ Fits(a.n, b.d) /\ Fits(b.n, a.d)
    THEN Sgn(a.n * b.d - b.n * a.d)
    ELSE IF Sign(a) # 2 /\ Sign(b) # 2 /\ Sign(a) # Sign(b) THEN Sgn(Sign(a) - Sign(b))
    ELSE 2

\* the first failure among two operands, or None (no failure)
Operands(a, b) ==
    CASE IsExc(a) -> a
      [] IsExc(b) -> b
      [] ~IsNumber(a) \/ ~IsNumber(b) -> Raise("TypeError")
      [] OTHER -> None

(***************************************************************************)
(* Units (AIDE.units.unit_registry, a pint registry).  A quantity is a     *)
(* value whose field u names its unit; a plain number has u = "".          *)
(***************************************************************************)
Units == {"dimensionless", "m", "mm", "nm", "kg/m^3", "mg/L", "s", "degK", "mol/m^3",
          "1/m^3", "W/kg", "m/s", "m^3/s", "1/s"}

\* the dimension of a unit; "composite" is any product or quotient the
\* model does not name, of a dimension of its own
Dim(u) == CASE u \in {"m", "mm", "nm"} -> "[length]"
            [] u \in {"kg/m^3", "mg/L"} -> "[mass]/[length]^3"
            [] u = "dimensionless" -> ""
            [] u = "s" -> "[time]"
            [] u = "degK" -> "[temperature]"
            [] u = "mol/m^3" -> "[substance]/[length]^3"
            [] u = "1/m^3" -> "1/[length]^3"
            [] u = "W/kg" -> "[length]^2/[time]^3"
            [] u = "m/s" -> "[length]/[time]"
            [] u = "m^3/s" -> "[length]^3/[time]"
            [] u = "1/s" -> "1/[time]"
            [] OTHER -> "composite"

\* the factor from a unit to the base unit of its dimension
Scale(u) == CASE u = "mm" -> Rat(1, 1000)
              [] u = "nm" -> Rat(1, 1000000000)
              [] u = "mg/L" -> Rat(1, 1000)
              [] OTHER -> IntV(1)

Quantity(v, unit) == IF IsExc(v) THEN v ELSE [v EXCEPT !.u = unit]

IsQuantity(v) == v.u # ""

\* Quantity.magnitude; a float has no such attribute
magnitude(v) ==
    IF IsExc(v) THEN v
    ELSE IF v.u = "" THEN Raise("AttributeError")
    ELSE [v EXCEPT !.u = ""]

(***************************************************************************)
(* Arithmetic on magnitudes                                                *)
(***************************************************************************)
MulMag(a, b) ==
    IF a.t = "nonfinite" \/ b.t = "nonfinite" THEN NonFinite
    ELSE IF a.t = "complex" \/ b.t = "complex" THEN Complex
    ELSE IF IsZero(a) \/ IsZero(b) THEN IntV(0)
    ELSE IF IsNum(a) /\ IsNum(b)
    THEN LET g1 == Gcd(Abs(a.n), b.d)
             g2 == Gcd(Abs(b.n), a.d)
             n1 == a.n \div g1
             n2 == b.n \div g2
             d1 == a.d \div g2
             d2 == b.d \div g1
         IN  IF Fits(n1, n2) /\ Fits(d1, d2) /\ Fits(a.ed, b.ed)
             THEN Surd(n1 * n2, d1 * d2, a.en * b.ed + b.en * a.ed, a.ed * b.ed)
             ELSE BySign(SignMul(Sign(a), Sign(b)))
    ELSE IF a.t = "frac" /\ b.t = "frac" THEN FracReal
    ELSE IF a.t = "frac" /\ Sign(b) = 1 /\ Cmp(b, IntV(1)) \in {-1, 0} THEN FracReal
    ELSE IF b.t = "frac" /\ Sign(a) = 1 /\ Cmp(a, IntV(1)) \in {-1, 0} THEN FracReal
    ELSE BySign(SignMul(Sign(a), Sign(b)))

\* 1/b for b # 0
InvMag(b) ==
    CASE b.t = "num" -> IF b.en = 0 THEN Rat(b.d, b.n)
                        ELSE Surd(b.d * Sgn(b.n), Abs(b.n), -b.en, b.ed)
      [] b.t = "frac" -> PosReal
      [] OTHER -> b

NegMag(a) ==
    CASE a.t = "num" -> [a EXCEPT !.n = -a.n]
      [] a.t \in {"pos", "frac"} -> NegReal
      [] a.t = "neg" -> PosReal
      [] OTHER -> a

AddMag(a, b) ==
    IF a.t = "nonfinite" \/ b.t = "nonfinite" THEN NonFinite
    ELSE IF a.t = "complex" \/ b.t = "complex" THEN Complex
    ELSE IF IsZero(a) THEN b
    ELSE IF IsZero(b) THEN a
    ELSE IF IsNum(a) /\ IsNum(b) /\ a.en = b.en /\ a.ed = b.ed
            /\ Fits(a.n, b.d) /\ Fits(b.n, a.d) /\ Fits(a.d, b.d)
            /\ Abs(a.n * b.d + b.n * a.d) <= IntLimit
    THEN LET s == Rat(a.n * b.d + b.n * a.d, a.d * b.d)
         IN  IF s.n = 0 THEN s ELSE [s EXCEPT !.en = a.en, !.ed = a.ed]
    ELSE IF Sign(a) = Sign(b) THEN BySign(Sign(a))
    ELSE AnyReal

\* a - b; 1 - x stays in (0, 1) for x in (0, 1)
SubMag(a, b) ==
    IF IsNum(a) /\ Cmp(a, IntV(1)) = 0 /\ b.t = "frac" THEN FracReal
    ELSE AddMag(a, NegMag(b))

(***************************************************************************)
(* Unit algebra of pint quantities under * and /                           *)
(***************************************************************************)
UnitMul(x, y) ==
    CASE x = "" -> y
      [] y = "" -> x
      [] x = "dimensionless" -> y
      [] y = "dimensionless" -> x
      [] OTHER -> "composite"

UnitDiv(x, y) ==
    CASE y = "" -> x
      [] x = "" -> IF y = "dimensionless" THEN y ELSE "composite"
      [] Dim(x) = Dim(y) /\ Dim(x) # "composite" -> "dimensionless"
      [] y = "dimensionless" -> x
      [] OTHER -> "composite"

\* the magnitude of quantity a expressed in unit y of the same dimension
Rescale(a, y) == MulMag(MulMag([a EXCEPT !.u = ""], Scale(a.u)), InvMag(Scale(y)))

(***************************************************************************)
(* Python's binary operators                                               *)
(***************************************************************************)
MulQ(a, b) ==
    LET f == Operands(a, b)
    IN  IF f # None THEN f
        ELSE [MulMag([a EXCEPT !.u = ""], [b EXCEPT !.u = ""]) EXCEPT !.u = UnitMul(a.u, b.u)]

DivQ(a, b) ==
    LET f == Operands(a, b)
        num == IF a.u # "" /\ b.u # "" /\ Dim(a.u) = Dim(b.u) /\ Dim(a.u) # "composite"
               THEN Rescale(a, b.u) ELSE [a EXCEPT !.u = ""]
    IN  IF f # None THEN f
        ELSE IF IsZero(b) THEN Raise("ZeroDivisionError")
        ELSE [MulMag(num, InvMag([b EXCEPT !.u = ""])) EXCEPT !.u = UnitDiv(a.u, b.u)]

\* a + b; pint adds only quantities of one dimension, and a plain number
\* only to a dimensionless quantity
AddQ(a, b) ==
    LET f == Operands(a, b)
        ua == IF a.u = "" THEN "dimensionless" ELSE a.u
        ub == IF b.u = "" THEN "dimensionless" ELSE b.u
    IN  IF f # None THEN f
        ELSE IF a.u = "" /\ b.u = "" THEN AddMag(a, b)
        ELSE IF Dim(ua) # Dim(ub) \/ Dim(ua) = "composite" THEN Raise("DimensionalityError")
        ELSE [AddMag([a EXCEPT !.u = ""], Rescale([b EXCEPT !.u = ub], ua)) EXCEPT !.u = ua]

NegQ(a) ==
    IF IsExc(a) THEN a
    ELSE IF ~IsNumber(a) THEN Raise("TypeError")
    ELSE [NegMag([a EXCEPT !.u = ""]) EXCEPT !.u = a.u]

SubQ(a, b) ==
    LET f == Operands(a, b)
    IN  IF f # None THEN f
        ELSE IF a.u = "" /\ b.u = "" THEN SubMag(a, b)
        ELSE AddQ(a, NegQ(b))

(***************************************************************************)
(* Powers, logarithms, exp, sqrt, min                                      *)
(***************************************************************************)
\* whether natural n >= 1 is a power of b, and which
RECURSIVE IsPowNat(_, _)
IsPowNat(b, n) == IF n = 1 THEN TRUE ELSE IF n % b # 0 THEN FALSE ELSE IsPowNat(b, n \div b)

RECURSIVE LogNat(_, _)
LogNat(b, n) == IF n <= 1 THEN 0 ELSE 1 + LogNat(b, n \div b)

\* whether the positive rational n/d is b^k for an integer k, and that k
IsPowRat(b, v) == (v.d = 1 /\ IsPowNat(b, v.n)) \/ (v.n = 1 /\ IsPowNat(b, v.d))

LogRat(b, v) == IF v.d = 1 THEN LogNat(b, v.n) ELSE -LogNat(b, v.d)

\* a^k for a number a # 0 and a natural k
RECURSIVE NatPow(_, _)
NatPow(a, k) == IF k = 0 THEN IntV(1) ELSE MulMag(a, NatPow(a, k - 1))

\* magnitude a to the power of magnitude b, as float.__pow__ does
PowMag(a, b) ==
    IF a.t = "nonfinite" \/ b.t = "nonfinite" THEN NonFinite
    ELSE IF a.t = "complex" \/ b.t = "complex" THEN Complex
    ELSE IF IsZero(b) THEN IntV(1)
    ELSE IF IsZero(a) THEN (IF Sign(b) = -1 THEN Raise("ZeroDivisionError") ELSE IntV(0))
    ELSE IF IsNum(b) /\ b.en = 0 /\ b.d = 1
    THEN \* an integer exponent
         IF Abs(b.n) > 64 THEN BySign(IF b.n % 2 = 0 THEN 1 ELSE Sign(a))
         ELSE IF ~IsNum(a) THEN BySign(IF b.n % 2 = 0 THEN 1 ELSE Sign(a))
         ELSE IF b.n > 0 THEN NatPow(a, b.n) ELSE InvMag(NatPow(a, -b.n))
    ELSE IF Sign(a) = -1 THEN Complex
    ELSE IF Sign(a) = 2 THEN AnyReal
    ELSE IF IsNum(a) /\ IsNum(b) /\ b.en = 0 /\ IsPowRat(2, a)
            /\ Fits(LogRat(2, a) * a.ed + a.en, b.n) /\ Fits(a.ed, b.d)
    THEN \* a = 2^(k + en/ed): the exponents multiply
         Surd(1, 1, (LogRat(2, a) * a.ed + a.en) * b.n, a.ed * b.d)
    ELSE PosReal

\* numpy's log to base b (2 or 10) of a magnitude
LogMag(b, a) ==
    CASE a.t = "complex" -> Complex
      [] a.t = "nonfinite" -> NonFinite
      [] Sign(a) \in {0, -1} -> NonFinite
      [] a.t = "frac" -> NegReal
      [] a.t = "num" /\ IsPowRat(b, a) /\ (b = 2 \/ a.en = 0) -> Rat(LogRat(b, a) * a.ed + a.en, a.ed)
      [] a.t = "num" /\ Cmp(a, IntV(1)) # 2 -> BySign(Cmp(a, IntV(1)))
      [] OTHER -> AnyReal

ExpMag(a) ==
    CASE a.t = "complex" -> Complex
      [] a.t = "nonfinite" -> NonFinite
      [] IsZero(a) -> IntV(1)
      [] Sign(a) = -1 -> FracReal
      [] OTHER -> PosReal

\* base ** exponent
PowQ(a, b) ==
    LET f == Operands(a, b)
    IN  IF f # None THEN f
        ELSE IF b.u # "" /\ Dim(b.u) # "" THEN Raise("DimensionalityError")
        ELSE [PowMag([a EXCEPT !.u = ""], [b EXCEPT !.u = ""])
                 EXCEPT !.u = IF a.u \in {"", "dimensionless"} THEN a.u ELSE "composite"]

\* np.log2, np.log10: of a number, or of a dimensionless quantity
LogQ(b, a) ==
    IF IsExc(a) THEN a
    ELSE IF ~IsNumber(a) THEN Raise("TypeError")
    ELSE IF a.u # "" /\ Dim(a.u) # "" THEN Raise("DimensionalityError")
    ELSE [LogMag(b, [a EXCEPT !.u = ""]) EXCEPT !.u = a.u]

\* np.exp
ExpQ(a) ==
    IF IsExc(a) THEN a
    ELSE IF ~IsNumber(a) THEN Raise("TypeError")
    ELSE ExpMag(a)

\* np.sqrt: nan, not an exception, below zero
SqrtQ(a) ==
    IF IsExc(a) THEN a
    ELSE IF ~IsNumber(a) THEN Raise("TypeError")
    ELSE IF Sign(a) = -1 THEN NonFinite
    ELSE PowMag(a, Rat(1, 2))

\* Python's min(a, b): b if b < a, else a; complex numbers have no order
MinQ(a, b) ==
    LET f == Operands(a, b)
    IN  IF f # None THEN f
        ELSE IF a.t = "complex" \/ b.t = "complex" THEN Raise("TypeError")
        ELSE IF Cmp(b, a) = -1 THEN b
        ELSE IF Cmp(b, a) = 2 /\ a.t = "pos" THEN PosReal
        ELSE a

(***************************************************************************)
(* State                                                                   *)
(***************************************************************************)
VARIABLES
    chem,   \* the Chemical objects: the module's PACl, Alum, HumicAcid and a caller's X
    last    \* the operation in progress: its name, arguments and outcome

vars == <<chem, last>>

Registry == {"PACl", "Alum", "HumicAcid"}

ChemIds == Registry \cup {"X"}

\* a Python string as a value
Str(s) == [Abstract("str") EXCEPT !.ref = s]

(***************************************************************************)
(* class Chemical                                                          *)
(***************************************************************************)
\* a name not yet bound to an object
NoChemical ==
    [alive |-> FALSE, name |-> Unset, Diameter |-> Unset, Density |-> Unset,
     MolecWeight |-> Unset, AluminumMPM |-> Unset, Precip |-> Unset, PrecipName |-> Unset,
     PrecipDiameter |-> Unset, PrecipDensity |-> Unset, PrecipMolecWeight |-> Unset,
     PrecipAluminumMPM |-> Unset]

\* a constructor that leaves the precipitate attributes of every Chemical unset
ChemicalCopyingNothing(name, diameter, density, molecWeight, Precipitate, AluminumMPM) ==
    [NoChemical EXCEPT !.alive = TRUE, !.name = name, !.Diameter = diameter,
                       !.Density = density, !.MolecWeight = molecWeight,
                       !.AluminumMPM = AluminumMPM, !.Precip = Precipitate,
                       !.PrecipName = Precipitate]

\* Chemical.__init__
Chemical(name, diameter, density, molecWeight, Precipitate, AluminumMPM) ==
    LET self == [NoChemical EXCEPT !.alive = TRUE, !.name = name, !.Diameter = diameter,
                                   !.Density = density, !.MolecWeight = molecWeight,
                                   !.AluminumMPM = AluminumMPM, !.Precip = Precipitate]
    IN  IF self.Precip = self.name
        THEN [self EXCEPT !.PrecipName = name, !.PrecipDiameter = diameter,
                          !.PrecipDensity = density, !.PrecipMolecWeight = molecWeight,
                          !.PrecipAluminumMPM = AluminumMPM]
        ELSE [self EXCEPT !.PrecipName = Precipitate]

\* Chemical.define_Precip
define_Precip(self, diameter, density, molecweight, alumMPM) ==
    [self EXCEPT !.PrecipDiameter = diameter, !.PrecipDensity = density,
                 !.PrecipMolecWeight = molecweight, !.PrecipAluminumMPM = alumMPM]

\* (90 * u.nm).to(u.m).magnitude and the like: nanometres in metres
NanoMetres(k) == Rat(k, 1000000000)

\* the module's Chemical definitions
PACl == Chemical(Str("PACl"), NanoMetres(90), IntV(1138), Rat(1039, 1000), Str("PACl"), IntV(13))

AlumInit == Chemical(Str("Alum"), NanoMetres(70), IntV(2420), Rat(59921, 100000), Str("AlOH3"), IntV(2))

Alum == define_Precip(AlumInit, NanoMetres(70), IntV(2420), Rat(78, 1000), IntV(1))

HumicAcid == Chemical(Str("Humic Acid"), Rat(72, 1000000000), IntV(1780), None,
                      Str("Humic Acid"), None)

\* the module's constants
DIAM_FRACTAL == Rat(23, 10)

DIAM_CLAY == Rat(7, 1000000)

RATIO_HEIGHT_DIAM == Rat(1, 10)

DENS_CLAY == IntV(2650)

RATIO_KOLMOGOROV == IntV(50)

PHI_FLOC == Rat(45, 24)

\* 6.0221415 * 10**23: beyond the integers kept exactly, so known by its sign
NUM_AVOGADRO == PosReal

MOLEC_WEIGHT_ALUMINUM == Rat(27, 1000)

\* np.pi: irrational, known by its sign
PI == PosReal

\* an attribute read that yields None where the attribute was never assigned
AttrOrNone(obj, attr) ==
    IF IsExc(obj) THEN obj
    ELSE IF obj.t # "chem" THEN Raise("AttributeError")
    ELSE IF chem[obj.ref][attr].t = "unset" THEN None
    ELSE chem[obj.ref][attr]

\* obj.attr: AttributeError when the attribute was never assigned, or the
\* object is no Chemical
Attr(obj, attr) ==
    IF IsExc(obj) THEN obj
    ELSE IF obj.t # "chem" THEN Raise("AttributeError")
    ELSE IF chem[obj.ref][attr].t = "unset" THEN Raise("AttributeError")
    ELSE chem[obj.ref][attr]

(***************************************************************************)
(* Expressions.  A function body is the expression its return statement    *)
(* evaluates.  The operators below build that expression; Eval, defined    *)
(* after the functions, evaluates it as Python does: the operands first,   *)
(* from left to right, then the operation.                                 *)
(***************************************************************************)
Expr(op, args) == [op |-> op, args |-> args]

IsExpr(e) == "op" \in DOMAIN e

\* a * b
Mul(a, b) == Expr("*", <<a, b>>)

\* a / b
Div(a, b) == Expr("/", <<a, b>>)

\* a + b
Add(a, b) == Expr("+", <<a, b>>)

\* a - b
Sub(a, b) == Expr("-", <<a, b>>)

\* -a
Neg(a) == Expr("neg", <<a>>)

\* a ** b
Pow(a, b) == Expr("**", <<a, b>>)

\* np.log2(a), np.log10(a)
Log(b, a) == Expr(IF b = 2 THEN "log2" ELSE "log10", <<a>>)

\* np.exp(a)
Exp(a) == Expr("exp", <<a>>)

\* np.sqrt(a)
Sqrt(a) == Expr("sqrt", <<a>>)

\* min(a, b)
Min(a, b) == Expr("min", <<a, b>>)

\* a.magnitude
Magnitude(a) == Expr("magnitude", <<a>>)

\* statement order: first is evaluated before rest, whose value is returned
Then(first, rest) == Expr("then", <<first, rest>>)

\* name(*args) for a function of the module or of AIDE.physchem
Call(name, args) == Expr(name, args)

(***************************************************************************)
(* u.wraps(ret, args, strict=False): a quantity passed for a parameter     *)
(* that declares a unit is converted to that unit's magnitude, or the call *)
(* fails when the dimensions differ; anything else is passed as it is.     *)
(* The result is tagged with ret, unless ret is None.                      *)
(***************************************************************************)
NoUnit == "None"

Converter(decl, values) ==
    [i \in DOMAIN values |->
        IF decl[i] # NoUnit /\ IsQuantity(values[i])
        THEN IF Dim(values[i].u) = Dim(decl[i]) THEN Rescale(values[i], decl[i])
             ELSE Raise("DimensionalityError")
        ELSE values[i]]

\* whether an operand raised, and the first that did
Failed(x) == \E i \in DOMAIN x : IsExc(x[i])

FirstFailure(x) == x[CHOOSE i \in DOMAIN x : IsExc(x[i]) /\ \A j \in 1 .. i - 1 : ~IsExc(x[j])]

(***************************************************************************)
(* AIDE.physchem                                                           *)
(***************************************************************************)
density_water(temp) ==
    IF IsNumber(temp) THEN PosReal ELSE Raise("TypeError")

viscosity_kinematic(temp) ==
    IF IsNumber(temp) THEN PosReal ELSE Raise("TypeError")

gravity == Quantity(PosReal, "composite")

(***************************************************************************)
(* The formula functions: each definition is the function's body, its      *)
(* return expression operator for operator, over the arguments the         *)
(* decorator hands it.  The decorators are in wraps below.                 *)
(***************************************************************************)
dens_alum_nanocluster(coag) ==
    Div(Mul(Mul(Attr(coag, "PrecipDensity"), MOLEC_WEIGHT_ALUMINUM),
            Attr(coag, "PrecipAluminumMPM")),
        Attr(coag, "PrecipMolecWeight"))

dens_pacl_solution(ConcAluminum, temp) ==
    Add(Div(Mul(Mul(Rat(492, 1000), ConcAluminum), Attr(ChemRef("PACl"), "MolecWeight")),
            Mul(Attr(ChemRef("PACl"), "AluminumMPM"), MOLEC_WEIGHT_ALUMINUM)),
        Magnitude(Call("density_water", <<temp>>)))

conc_precipitate(ConcAluminum, coag) ==
    Mul(Div(ConcAluminum, MOLEC_WEIGHT_ALUMINUM),
        Div(Attr(coag, "PrecipMolecWeight"), Attr(coag, "PrecipAluminumMPM")))

conc_floc(ConcAluminum, concClay, coag) ==
    Add(Magnitude(Call("conc_precipitate", <<ConcAluminum, coag>>)), concClay)

moles_aluminum(ConcAluminum) ==
    Div(ConcAluminum, MOLEC_WEIGHT_ALUMINUM)

sep_dist_aluminum(ConcAluminum) ==
    Pow(Div(IntV(1), Mul(NUM_AVOGADRO, Magnitude(Call("moles_aluminum", <<ConcAluminum>>)))), Rat(1, 3))

num_clay(ConcClay, DiamClay) ==
    Div(ConcClay, Div(Mul(Mul(DENS_CLAY, PI), Pow(DiamClay, IntV(3))), IntV(6)))

sep_dist_clay(ConcClay, DiamClay) ==
    Pow(Mul(Div(DENS_CLAY, ConcClay), Div(Mul(PI, Pow(DiamClay, IntV(3))), IntV(6))), Rat(1, 3))

num_nanoclusters(ConcAluminum, coag) ==
    Div(ConcAluminum, Mul(Mul(Magnitude(Call("dens_alum_nanocluster", <<coag>>)), PI),
                  Pow(Attr(coag, "Diameter"), IntV(3))))

frac_vol_floc_initial(ConcAluminum, ConcClay, coag) ==
    Add(Div(Magnitude(Call("conc_precipitate", <<ConcAluminum, coag>>)), Attr(coag, "PrecipDensity")),
        Div(ConcClay, DENS_CLAY))

\* p and invp carry no decorator
p(C, Cprime) == Neg(Log(10, Div(C, Cprime)))

\* an invp that raises 10 to pC, not to -pC
invp_of_minus_p(pC, Cprime) == Mul(Cprime, Pow(IntV(10), pC))

invp(pC, Cprime) == Mul(Cprime, Pow(IntV(10), Neg(pC)))

diam_fractal(DiamFractal, DiamInitial, NumCol) ==
    Mul(DiamInitial, Pow(IntV(2), Div(NumCol, DiamFractal)))

\* a num_coll_reqd that counts tenfold growths, not doublings
num_coll_reqd_tenfold(DiamFractal, DiamInit, DiamTarget) ==
    Mul(DiamFractal, Log(10, Div(DiamTarget, DiamInit)))

num_coll_reqd(DiamFractal, DiamInit, DiamTarget) ==
    Mul(DiamFractal, Log(2, Div(DiamTarget, DiamInit)))

sep_dist_floc(ConcAluminum, ConcClay, coag, DiamFractal, DiamInit, DiamTarget) ==
    Mul(Mul(DiamInit, Pow(Div(PI, Mul(IntV(6), Call("frac_vol_floc_initial", <<ConcAluminum, ConcClay, coag>>))),
                      Rat(1, 3))),
        Pow(Div(DiamTarget, DiamInit), Div(DiamFractal, IntV(3))))

frac_vol_floc(ConcAluminum, ConcClay, coag, DiamFractal, DiamInit, DiamTarget) ==
    Mul(Call("frac_vol_floc_initial", <<ConcAluminum, ConcClay, coag>>),
        Pow(Div(DiamTarget, DiamInit), Sub(IntV(3), DiamFractal)))

dens_floc_init(ConcAluminum, ConcClay, coag) ==
    Div(Magnitude(Call("conc_floc", <<ConcAluminum, ConcClay, coag>>)), Call("frac_vol_floc_initial", <<ConcAluminum, ConcClay, coag>>))

ratio_clay_sphere(RatioHeightDiameter) ==
    Mul(Add(Div(IntV(1), IntV(2)), RatioHeightDiameter),
        Pow(Div(IntV(2), Mul(IntV(3), RatioHeightDiameter)), Div(IntV(2), IntV(3))))

ratio_area_clay_total(ConcClay, DiamClay, DiamTube, DensityClay, RatioHeightDiameter) ==
    Div(IntV(1),
        Add(IntV(1),
            Div(Mul(IntV(2), DiamClay),
                Mul(Mul(Mul(IntV(3), DiamTube), Call("ratio_clay_sphere", <<RatioHeightDiameter>>)),
                    Div(ConcClay, DensityClay)))))

gamma_coag(ConcClay, ConcAluminum, coag, DiamTube, DiamClay, DensityClay, RatioHeightDiameter) ==
    Sub(IntV(1),
        Exp(Mul(Mul(Div(Mul(Neg(Call("frac_vol_floc_initial", <<ConcAluminum, IntV(0), coag>>)), DiamClay),
                        Mul(Call("frac_vol_floc_initial", <<IntV(0), ConcClay, coag>>),
                            Attr(coag, "Diameter"))),
                    Div(IntV(1), PI)),
                Div(Call("ratio_area_clay_total", <<ConcClay, DiamClay, DiamTube, DensityClay, RatioHeightDiameter>>),
                    Call("ratio_clay_sphere", <<RatioHeightDiameter>>)))))

\* a gamma_humic_acid_to_coag without the min
gamma_humic_acid_unclamped(ConcAl, ConcNatOrgMat, NatOrgMat, coag) ==
    Mul(Mul(Div(ConcNatOrgMat, Magnitude(Call("conc_precipitate", <<ConcAl, coag>>))),
            Div(Attr(coag, "Density"), Attr(NatOrgMat, "Density"))),
        Div(Attr(coag, "Diameter"), Mul(IntV(4), Attr(NatOrgMat, "Diameter"))))

gamma_humic_acid_to_coag(ConcAl, ConcNatOrgMat, NatOrgMat, coag) ==
    Min(Mul(Mul(Div(ConcNatOrgMat, Magnitude(Call("conc_precipitate", <<ConcAl, coag>>))),
                Div(Attr(coag, "Density"), Attr(NatOrgMat, "Density"))),
            Div(Attr(coag, "Diameter"), Mul(IntV(4), Attr(NatOrgMat, "Diameter")))),
        IntV(1))

\* a _pacl_term that adds its two factors
pacl_term_added(DiamTube, DiamClay, DensityClay, ConcClay, ConcAl, ConcNatOrgMat, NatOrgMat, coag, RatioHeightDiameter) ==
    Add(Call("gamma_coag", <<ConcClay, ConcAl, coag, DiamTube, DiamClay, DensityClay, RatioHeightDiameter>>),
        Sub(IntV(1), Call("gamma_humic_acid_to_coag", <<ConcAl, ConcNatOrgMat, NatOrgMat, coag>>)))

pacl_term(DiamTube, DiamClay, DensityClay, ConcClay, ConcAl, ConcNatOrgMat, NatOrgMat, coag, RatioHeightDiameter) ==
    Mul(Call("gamma_coag", <<ConcClay, ConcAl, coag, DiamTube, DiamClay, DensityClay, RatioHeightDiameter>>),
        Sub(IntV(1), Call("gamma_humic_acid_to_coag", <<ConcAl, ConcNatOrgMat, NatOrgMat, coag>>)))

alpha_pacl_clay(DiamTube, DiamClay, DensityClay, ConcClay, ConcAl, ConcNatOrgMat, NatOrgMat, coag, RatioHeightDiameter) ==
    LET PAClTerm == Call("pacl_term", <<DiamTube, DiamClay, DensityClay, ConcClay, ConcAl, ConcNatOrgMat, NatOrgMat, coag, RatioHeightDiameter>>)
    IN  Mul(IntV(2), Mul(PAClTerm, Sub(IntV(1), Call("gamma_coag", <<ConcClay, ConcAl, coag, DiamTube, DiamClay, DensityClay, RatioHeightDiameter>>))))

\* an alpha_pacl_pacl that squares the uncovered fraction of the clay
alpha_pacl_pacl_uncovered(DiamTube, DiamClay, DensityClay, ConcClay, ConcAl, ConcNatOrgMat, NatOrgMat, coag, RatioHeightDiameter) ==
    Pow(Sub(IntV(1), Call("gamma_coag", <<ConcClay, ConcAl, coag, DiamTube, DiamClay, DensityClay, RatioHeightDiameter>>)),
        IntV(2))

alpha_pacl_pacl(DiamTube, DiamClay, DensityClay, ConcClay, ConcAl, ConcNatOrgMat, NatOrgMat, coag, RatioHeightDiameter) ==
    LET PAClTerm == Call("pacl_term", <<DiamTube, DiamClay, DensityClay, ConcClay, ConcAl, ConcNatOrgMat, NatOrgMat, coag, RatioHeightDiameter>>)
    IN  Pow(PAClTerm, IntV(2))

alpha_pacl_nat_org_mat(DiamTube, DiamClay, DensityClay, ConcClay, ConcAl, ConcNatOrgMat, NatOrgMat, coag, RatioHeightDiameter) ==
    LET PAClTerm == Call("pacl_term", <<DiamTube, DiamClay, DensityClay, ConcClay, ConcAl, ConcNatOrgMat, NatOrgMat, coag, RatioHeightDiameter>>)
    IN  Mul(Mul(Mul(IntV(2), PAClTerm), Call("gamma_coag", <<ConcClay, ConcAl, coag, DiamTube, DiamClay, DensityClay, RatioHeightDiameter>>)),
                Call("gamma_humic_acid_to_coag", <<ConcAl, ConcNatOrgMat, NatOrgMat, coag>>))

alpha(DiamTube, DiamClay, DensityClay, ConcClay, ConcAl, ConcNatOrgMat, NatOrgMat, coag, RatioHeightDiameter) ==
    Add(Add(Call("alpha_pacl_nat_org_mat", <<DiamTube, DiamClay, DensityClay, ConcClay, ConcAl, ConcNatOrgMat, NatOrgMat, coag, RatioHeightDiameter>>),
            Call("alpha_pacl_pacl", <<DiamTube, DiamClay, DensityClay, ConcClay, ConcAl, ConcNatOrgMat, NatOrgMat, coag, RatioHeightDiameter>>)),
        Call("alpha_pacl_clay", <<DiamTube, DiamClay, DensityClay, ConcClay, ConcAl, ConcNatOrgMat, NatOrgMat, coag, RatioHeightDiameter>>))

pc_viscous(EnergyDis, Temp, Time, DiamInit, DiamTube, DiamClay, DensityClay, ConcClay, ConcAl, ConcNatOrgMat, NatOrgMat, coag, FittingParam, RatioHeightDiameter) ==
    Mul(Div(IntV(3), IntV(2)),
        Log(10,
            Add(Mul(Mul(Mul(Mul(Mul(Mul(Div(IntV(2), IntV(3)), PI), FittingParam), Time),
                            Sqrt(Div(EnergyDis, Magnitude(Call("viscosity_kinematic", <<Temp>>))))),
                        Call("alpha", <<DiamTube, DiamClay, DensityClay, ConcClay, ConcAl, ConcNatOrgMat, NatOrgMat, coag, RatioHeightDiameter>>)),
                    Pow(Div(DiamInit, Magnitude(Call("sep_dist_clay", <<ConcClay, DiamInit>>))), IntV(2))),
                IntV(1))))

dens_floc(ConcAl, ConcClay, DiamFractal, DiamInit, DiamTarget, coag, Temp) ==
    LET WaterDensity == Magnitude(Call("density_water", <<Temp>>))
    IN  Then(WaterDensity,
                 Add(Mul(Sub(Magnitude(Call("dens_floc_init", <<ConcAl, ConcClay, coag>>)), WaterDensity),
                         Pow(Div(DiamInit, DiamTarget), Sub(IntV(3), DiamFractal))),
                     WaterDensity))

vel_term_floc(ConcAl, ConcClay, coag, DiamFractal, DiamInit, DiamTarget, Temp) ==
    LET WaterDensity == Magnitude(Call("density_water", <<Temp>>))
    IN  Then(WaterDensity,
                 Mul(Mul(Div(Mul(Magnitude(gravity), Pow(DiamInit, IntV(2))),
                             Mul(Mul(IntV(18), PHI_FLOC), Magnitude(Call("viscosity_kinematic", <<Temp>>)))),
                         Div(Sub(Magnitude(Call("dens_floc_init", <<ConcAl, ConcClay, coag>>)), WaterDensity),
                             WaterDensity)),
                     Pow(Div(DiamTarget, DiamInit), Sub(DiamFractal, IntV(1)))))

diam_floc_vel_term(ConcAl, ConcClay, coag, DiamFractal, DiamInit, VelTerm, Temp) ==
    LET WaterDensity == Magnitude(Call("density_water", <<Temp>>))
    IN  Then(WaterDensity,
                 Mul(DiamInit,
                     Pow(Mul(Div(Mul(Mul(Mul(IntV(18), VelTerm), PHI_FLOC),
                                     Magnitude(Call("viscosity_kinematic", <<Temp>>))),
                                 Mul(Magnitude(gravity), Pow(DiamInit, IntV(2)))),
                             Div(WaterDensity,
                                 Sub(Magnitude(Call("dens_floc_init", <<ConcAl, ConcClay, coag>>)), WaterDensity))),
                         Div(IntV(1), Sub(DiamFractal, IntV(1))))))

time_col_laminar(ConcAl, ConcClay, coag, DiamFractal, DiamInit, DiamTarget, EnergyDis, Temp, DiamTube, RatioHeightDiameter, DensityClay) ==
    Div(Mul(Mul(Mul(Mul(Div(IntV(1), IntV(6)),
                        Pow(Div(IntV(6), PI), Div(IntV(1), IntV(3)))),
                    Pow(Call("frac_vol_floc_initial", <<ConcAl, ConcClay, coag>>), Div(IntV(-2), IntV(3)))),
                Pow(Div(Magnitude(Call("viscosity_kinematic", <<Temp>>)), EnergyDis),
                    Div(IntV(1), IntV(2)))),
            Pow(Div(DiamTarget, DiamInit), Sub(Div(Mul(IntV(2), DiamFractal), IntV(3)), IntV(2)))),
        Call("gamma_coag", <<ConcClay, ConcAl, coag, DiamTube, DiamInit, DensityClay, RatioHeightDiameter>>))

time_col_turbulent(ConcAl, ConcClay, coag, DiamFractal, DiamInit, DiamTarget, EnergyDis) ==
    Mul(Mul(Mul(Mul(Mul(Div(IntV(1), IntV(6)),
                        Pow(Div(IntV(6), PI), Div(IntV(1), IntV(9)))),
                    Pow(EnergyDis, Div(IntV(-1), IntV(3)))),
                Pow(DiamTarget, Div(IntV(2), IntV(3)))),
            Pow(Call("frac_vol_floc_initial", <<ConcAl, ConcClay, coag>>), Div(IntV(-8), IntV(9)))),
        Pow(Div(DiamTarget, DiamInit), Div(Mul(IntV(8), Sub(DiamFractal, IntV(3))), IntV(9))))

eta_kolmogorov(EnergyDis, Temp) ==
    Pow(Div(Pow(Magnitude(Call("viscosity_kinematic", <<Temp>>)), IntV(3)), EnergyDis),
        Div(IntV(1), IntV(4)))

lambda_vel(EnergyDis, Temp) ==
    Mul(RATIO_KOLMOGOROV, Magnitude(Call("eta_kolmogorov", <<EnergyDis, Temp>>)))

diam_kolmogorov(ConcAl, ConcClay, coag, DiamInit, DiamFractal, EnergyDis, Temp) ==
    Mul(DiamInit,
        Pow(Mul(Div(Magnitude(Call("eta_kolmogorov", <<EnergyDis, Temp>>)), DiamInit),
                Pow(Div(Mul(IntV(6), Call("frac_vol_floc_initial", <<ConcAl, ConcClay, coag>>)), PI),
                    Div(IntV(1), IntV(3)))),
            Div(IntV(3), DiamFractal)))

diam_vel(ConcAl, ConcClay, coag, DiamInit, DiamFractal, EnergyDis, Temp) ==
    Mul(DiamInit,
        Pow(Mul(Div(Magnitude(Call("lambda_vel", <<EnergyDis, Temp>>)), DiamInit),
                Pow(Div(Mul(IntV(6), Call("frac_vol_floc_initial", <<ConcAl, ConcClay, coag>>)), PI),
                    Div(IntV(1), IntV(3)))),
            Div(IntV(3), DiamFractal)))

diam_floc_max(epsMax) ==
    Mul(Mul(Rat(95, 10), Pow(IntV(10), IntV(-5))),
        Div(IntV(1), Pow(epsMax, Div(IntV(1), IntV(3)))))

ener_dis_diam_floc(Diam) ==
    Pow(Div(Mul(Rat(95, 10), Pow(IntV(10), IntV(-5))), Diam), IntV(3))

g_straight(PlantFlow, IDTube) ==
    Div(Mul(IntV(64), PlantFlow), Mul(Mul(IntV(3), PI), Pow(IDTube, IntV(3))))

reynolds_rapid_mix(PlantFlow, IDTube, Temp) ==
    Div(Mul(IntV(4), PlantFlow),
        Mul(Mul(PI, IDTube), Magnitude(Call("viscosity_kinematic", <<Temp>>))))

dean_number(PlantFlow, IDTube, RadiusCoil, Temp) ==
    Mul(Call("reynolds_rapid_mix", <<PlantFlow, IDTube, Temp>>),
        Pow(Div(IDTube, Mul(IntV(2), RadiusCoil)), Div(IntV(1), IntV(2))))

g_coil(FlowPlant, IDTube, RadiusCoil, Temp) ==
    Mul(Magnitude(Call("g_straight", <<FlowPlant, IDTube>>)),
        Pow(Add(IntV(1),
                Mul(Rat(33, 1000),
                    Pow(Log(10, Call("dean_number", <<FlowPlant, IDTube, RadiusCoil, Temp>>)), IntV(4)))),
            Div(IntV(1), IntV(2))))

time_res_tube(IDTube, LengthTube, FlowPlant) ==
    Div(Mul(Mul(LengthTube, PI), Div(Pow(IDTube, IntV(2)), IntV(4))), FlowPlant)

g_time_res(FlowPlant, IDTube, RadiusCoil, LengthTube, Temp) ==
    Mul(Magnitude(Call("g_coil", <<FlowPlant, IDTube, RadiusCoil, Temp>>)),
        Magnitude(Call("time_res_tube", <<IDTube, LengthTube, FlowPlant>>)))

(***************************************************************************)
(* The decorators: @u.wraps(ret, args, False) of each function.  p and     *)
(* invp have none.                                                         *)
(***************************************************************************)
Undecorated == {"p", "invp"}

wraps(name) ==
    CASE name = "density_water" ->
            [ret |-> "kg/m^3", args |-> <<"degK">>]
      [] name = "viscosity_kinematic" ->
            [ret |-> "composite", args |-> <<"degK">>]
      [] name = "dens_alum_nanocluster" ->
            [ret |-> "kg/m^3", args |-> <<NoUnit>>]
      [] name = "dens_pacl_solution" ->
            [ret |-> "kg/m^3", args |-> <<"kg/m^3", "degK">>]
      [] name = "conc_precipitate" ->
            [ret |-> "kg/m^3", args |-> <<"kg/m^3", NoUnit>>]
      [] name = "conc_floc" ->
            [ret |-> "kg/m^3", args |-> <<"kg/m^3", "kg/m^3", NoUnit>>]
      [] name = "moles_aluminum" ->
            [ret |-> "mol/m^3", args |-> <<"kg/m^3">>]
      [] name = "sep_dist_aluminum" ->
            [ret |-> "m", args |-> <<"kg/m^3">>]
      [] name = "num_clay" ->
            [ret |-> "1/m^3", args |-> <<"kg/m^3", "m">>]
      [] name = "sep_dist_clay" ->
            [ret |-> "m", args |-> <<"kg/m^3", "m">>]
      [] name = "num_nanoclusters" ->
            [ret |-> "1/m^3", args |-> <<"kg/m^3", NoUnit>>]
      [] name = "frac_vol_floc_initial" ->
            [ret |-> NoUnit, args |-> <<"kg/m^3", "kg/m^3", NoUnit>>]
      [] name = "diam_fractal" ->
            [ret |-> "m", args |-> <<"dimensionless", "m", "dimensionless">>]
      [] name = "num_coll_reqd" ->
            [ret |-> NoUnit, args |-> <<"dimensionless", "m", "m">>]
      [] name = "sep_dist_floc" ->
            [ret |-> "m", args |-> <<"kg/m^3", "kg/m^3", NoUnit, "dimensionless", "m", "m">>]
      [] name = "frac_vol_floc" ->
            [ret |-> "m", args |-> <<"kg/m^3", "kg/m^3", NoUnit, "dimensionless", "m", "m">>]
      [] name = "dens_floc_init" ->
            [ret |-> "kg/m^3", args |-> <<"kg/m^3", "kg/m^3", NoUnit>>]
      [] name = "ratio_clay_sphere" ->
            [ret |-> NoUnit, args |-> <<"m">>]
      [] name = "ratio_area_clay_total" ->
            [ret |-> NoUnit, args |-> <<"kg/m^3", "m", "m", "kg/m^3", "dimensionless">>]
      [] name = "gamma_coag" ->
            [ret |-> NoUnit, args |-> <<"kg/m^3", "kg/m^3", NoUnit, "m", "m", "kg/m^3", "dimensionless">>]
      [] name = "gamma_humic_acid_to_coag" ->
            [ret |-> NoUnit, args |-> <<"kg/m^3", "kg/m^3", NoUnit, NoUnit>>]
      [] name = "pacl_term" ->
            [ret |-> NoUnit, args |-> <<"m", "m", "kg/m^3", "kg/m^3", "kg/m^3", "kg/m^3", NoUnit, NoUnit, "dimensionless">>]
      [] name = "alpha_pacl_clay" ->
            [ret |-> NoUnit, args |-> <<"m", "m", "kg/m^3", "kg/m^3", "kg/m^3", "kg/m^3", NoUnit, NoUnit, "dimensionless">>]
      [] name = "alpha_pacl_pacl" ->
            [ret |-> NoUnit, args |-> <<"m", "m", "kg/m^3", "kg/m^3", "kg/m^3", "kg/m^3", NoUnit, NoUnit, "dimensionless">>]
      [] name = "alpha_pacl_nat_org_mat" ->
            [ret |-> NoUnit, args |-> <<"m", "m", "kg/m^3", "kg/m^3", "kg/m^3", "kg/m^3", NoUnit, NoUnit, "dimensionless">>]
      [] name = "alpha" ->
            [ret |-> NoUnit, args |-> <<"m", "m", "kg/m^3", "kg/m^3", "kg/m^3", "kg/m^3", NoUnit, NoUnit, "dimensionless">>]
      [] name = "pc_viscous" ->
            [ret |-> NoUnit, args |-> <<"W/kg", "degK", "s", "m", "m", "m", "kg/m^3", "kg/m^3", "kg/m^3", "kg/m^3", NoUnit, NoUnit, "dimensionless", "dimensionless">>]
      [] name = "dens_floc" ->
            [ret |-> "kg/m^3", args |-> <<"kg/m^3", "kg/m^3", "dimensionless", "m", "m", NoUnit, "degK">>]
      [] name = "vel_term_floc" ->
            [ret |-> "m/s", args |-> <<"kg/m^3", "kg/m^3", NoUnit, "dimensionless", "m", "m", "degK">>]
      [] name = "diam_floc_vel_term" ->
            [ret |-> "m", args |-> <<"kg/m^3", "kg/m^3", NoUnit, "dimensionless", "m", "m/s", "degK">>]
      [] name = "time_col_laminar" ->
            [ret |-> "s", args |-> <<"kg/m^3", "kg/m^3", NoUnit, "dimensionless", "m", "m", "W/kg", "degK", "m", "dimensionless", "kg/m^3">>]
      [] name = "time_col_turbulent" ->
            [ret |-> "s", args |-> <<"kg/m^3", "kg/m^3", NoUnit, "dimensionless", "m", "m", "W/kg">>]
      [] name = "eta_kolmogorov" ->
            [ret |-> "m", args |-> <<"W/kg", "degK">>]
      [] name = "lambda_vel" ->
            [ret |-> "m", args |-> <<"W/kg", "degK">>]
      [] name = "diam_kolmogorov" ->
            [ret |-> "m", args |-> <<"kg/m^3", "kg/m^3", NoUnit, "m", "dimensionless", "W/kg", "degK">>]
      [] name = "diam_vel" ->
            [ret |-> "m", args |-> <<"kg/m^3", "kg/m^3", NoUnit, "m", "dimensionless", "W/kg", "degK">>]
      [] name = "diam_floc_max" ->
            [ret |-> "m", args |-> <<"W/kg">>]
      [] name = "ener_dis_diam_floc" ->
            [ret |-> "W/kg", args |-> <<"m">>]
      [] name = "g_straight" ->
            [ret |-> "1/s", args |-> <<"m^3/s", "m">>]
      [] name = "reynolds_rapid_mix" ->
            [ret |-> NoUnit, args |-> <<"m^3/s", "m", "degK">>]
      [] name = "dean_number" ->
            [ret |-> NoUnit, args |-> <<"m^3/s", "m", "m", "degK">>]
      [] name = "g_coil" ->
            [ret |-> "1/s", args |-> <<"m^3/s", "m", "m", "degK">>]
      [] name = "time_res_tube" ->
            [ret |-> "s", args |-> <<"m", "m", "m^3/s">>]
      [] name = "g_time_res" ->
            [ret |-> NoUnit, args |-> <<"m^3/s", "m", "m", "m", "degK">>]

\* the module's namespace: the function a name is bound to, applied to x
Function(name, x) ==
    CASE name = "density_water" -> density_water(x[1])
      [] name = "viscosity_kinematic" -> viscosity_kinematic(x[1])
      [] name = "dens_alum_nanocluster" -> dens_alum_nanocluster(x[1])
      [] name = "dens_pacl_solution" -> dens_pacl_solution(x[1], x[2])
      [] name = "conc_precipitate" -> conc_precipitate(x[1], x[2])
      [] name = "conc_floc" -> conc_floc(x[1], x[2], x[3])
      [] name = "moles_aluminum" -> moles_aluminum(x[1])
      [] name = "sep_dist_aluminum" -> sep_dist_aluminum(x[1])
      [] name = "num_clay" -> num_clay(x[1], x[2])
      [] name = "sep_dist_clay" -> sep_dist_clay(x[1], x[2])
      [] name = "num_nanoclusters" -> num_nanoclusters(x[1], x[2])
      [] name = "frac_vol_floc_initial" -> frac_vol_floc_initial(x[1], x[2], x[3])
      [] name = "p" -> p(x[1], x[2])
      [] name = "invp" -> invp(x[1], x[2])
      [] name = "diam_fractal" -> diam_fractal(x[1], x[2], x[3])
      [] name = "num_coll_reqd" -> num_coll_reqd(x[1], x[2], x[3])
      [] name = "sep_dist_floc" -> sep_dist_floc(x[1], x[2], x[3], x[4], x[5], x[6])
      [] name = "frac_vol_floc" -> frac_vol_floc(x[1], x[2], x[3], x[4], x[5], x[6])
      [] name = "dens_floc_init" -> dens_floc_init(x[1], x[2], x[3])
      [] name = "ratio_clay_sphere" -> ratio_clay_sphere(x[1])
      [] name = "ratio_area_clay_total" -> ratio_area_clay_total(x[1], x[2], x[3], x[4], x[5])
      [] name = "gamma_coag" -> gamma_coag(x[1], x[2], x[3], x[4], x[5], x[6], x[7])
      [] name = "gamma_humic_acid_to_coag" -> gamma_humic_acid_to_coag(x[1], x[2], x[3], x[4])
      [] name = "pacl_term" -> pacl_term(x[1], x[2], x[3], x[4], x[5], x[6], x[7], x[8], x[9])
      [] name = "alpha_pacl_clay" -> alpha_pacl_clay(x[1], x[2], x[3], x[4], x[5], x[6], x[7], x[8], x[9])
      [] name = "alpha_pacl_pacl" -> alpha_pacl_pacl(x[1], x[2], x[3], x[4], x[5], x[6], x[7], x[8], x[9])
      [] name = "alpha_pacl_nat_org_mat" -> alpha_pacl_nat_org_mat(x[1], x[2], x[3], x[4], x[5], x[6], x[7], x[8], x[9])
      [] name = "alpha" -> alpha(x[1], x[2], x[3], x[4], x[5], x[6], x[7], x[8], x[9])
      [] name = "pc_viscous" -> pc_viscous(x[1], x[2], x[3], x[4], x[5], x[6], x[7], x[8], x[9], x[10], x[11], x[12], x[13], x[14])
      [] name = "dens_floc" -> dens_floc(x[1], x[2], x[3], x[4], x[5], x[6], x[7])
      [] name = "vel_term_floc" -> vel_term_floc(x[1], x[2], x[3], x[4], x[5], x[6], x[7])
      [] name = "diam_floc_vel_term" -> diam_floc_vel_term(x[1], x[2], x[3], x[4], x[5], x[6], x[7])
      [] name = "time_col_laminar" -> time_col_laminar(x[1], x[2], x[3], x[4], x[5], x[6], x[7], x[8], x[9], x[10], x[11])
      [] name = "time_col_turbulent" -> time_col_turbulent(x[1], x[2], x[3], x[4], x[5], x[6], x[7])
      [] name = "eta_kolmogorov" -> eta_kolmogorov(x[1], x[2])
      [] name = "lambda_vel" -> lambda_vel(x[1], x[2])
      [] name = "diam_kolmogorov" -> diam_kolmogorov(x[1], x[2], x[3], x[4], x[5], x[6], x[7])
      [] name = "diam_vel" -> diam_vel(x[1], x[2], x[3], x[4], x[5], x[6], x[7])
      [] name = "diam_floc_max" -> diam_floc_max(x[1])
      [] name = "ener_dis_diam_floc" -> ener_dis_diam_floc(x[1])
      [] name = "g_straight" -> g_straight(x[1], x[2])
      [] name = "reynolds_rapid_mix" -> reynolds_rapid_mix(x[1], x[2], x[3])
      [] name = "dean_number" -> dean_number(x[1], x[2], x[3], x[4])
      [] name = "g_coil" -> g_coil(x[1], x[2], x[3], x[4])
      [] name = "time_res_tube" -> time_res_tube(x[1], x[2], x[3])
      [] name = "g_time_res" -> g_time_res(x[1], x[2], x[3], x[4], x[5])

\* Python's operators and attributes, and the numpy functions
Operators == {"*", "/", "+", "-", "**", "neg", "log2", "log10", "exp", "sqrt", "min",
              "magnitude", "then"}

Operator(op, x) ==
    CASE op = "*" -> MulQ(x[1], x[2])
      [] op = "/" -> DivQ(x[1], x[2])
      [] op = "+" -> AddQ(x[1], x[2])
      [] op = "-" -> SubQ(x[1], x[2])
      [] op = "**" -> PowQ(x[1], x[2])
      [] op = "neg" -> NegQ(x[1])
      [] op \in {"log2", "log10"} -> LogQ(IF op = "log2" THEN 2 ELSE 10, x[1])
      [] op = "exp" -> ExpQ(x[1])
      [] op = "sqrt" -> SqrtQ(x[1])
      [] op = "min" -> MinQ(x[1], x[2])
      [] op = "magnitude" -> magnitude(x[1])
      [] op = "then" -> x[2]

\* the calls an expression makes
RECURSIVE Calls(_)
Calls(e) ==
    IF ~IsExpr(e) THEN {}
    ELSE IF e.op \in Operators THEN UNION {Calls(e.args[i]) : i \in DOMAIN e.args}
    ELSE {e}

\* the value of an expression, given the outcome of each call it makes:
\* the operands are evaluated from left to right, and the first that
\* raised ends the evaluation
RECURSIVE Value(_, _)
Value(e, results) ==
    CASE \E r \in results : r[1] = e -> (CHOOSE r \in results : r[1] = e)[2]
      [] ~IsExpr(e) -> e
      [] OTHER ->
            LET x == IF Len(e.args) = 1 THEN <<Value(e.args[1], results)>>
                     ELSE <<Value(e.args[1], results), Value(e.args[2], results)>>
            IN  CASE Failed(x) -> FirstFailure(x)
                  [] OTHER -> Operator(e.op, x)

RECURSIVE Eval(_, _)

\* the values of the expressions of a sequence, in order
RECURSIVE EvalAll(_, _)
EvalAll(es, given) ==
    IF es = <<>> THEN <<>> ELSE <<Eval(Head(es), given)>> \o EvalAll(Tail(es), given)

\* the wrapper u.wraps puts around a function: it runs on the converted
\* arguments, and its result is tagged with ret
Wrapper(name, ret, new_values, given) ==
    CASE Failed(new_values) -> FirstFailure(new_values)
      [] OTHER -> LET result == Eval(Function(name, new_values), given)
                  IN  IF ret = NoUnit THEN result ELSE Quantity(result, ret)

\* name(*x).  The floating-point result of a function is known to the model
\* only by its kind unless it is exact; given pairs the names of functions
\* with the number each is taken to return, one of those it can return
Apply(name, x, given) ==
    CASE Failed(x) -> FirstFailure(x)
      [] \E r \in given : r[1] = name -> (CHOOSE r \in given : r[1] = name)[2]
      [] name \in Undecorated -> Eval(Function(name, x), given)
      [] OTHER -> Wrapper(name, wraps(name).ret, Converter(wraps(name).args, x), given)

\* Python evaluates an expression; a call of a function evaluates the
\* function's body.  The functions are pure, so each call an expression
\* makes is evaluated once, ahead of the operators around it.
Eval(e, given) ==
    Value(e, {<<k, Apply(k.op, EvalAll(k.args, given), given)>> : k \in Calls(e)})

(***************************************************************************)
(* Callers.  A caller passes each parameter a plain number or a quantity;  *)
(* the values below are the ones the model draws.  Each parameter has a    *)
(* role, which fixes the value a well-formed call passes (Base) and the    *)
(* other values tried in its place (Alts).                                 *)
(***************************************************************************)
Base(role) ==
    CASE role \in {"conc", "concnom"} -> Rat(1, 1000)
      [] role = "diam" -> DIAM_CLAY
      [] role = "diaminit" -> Rat(1, 1000000)
      [] role = "diamtarget" -> Rat(8, 1000000)
      [] role = "tube" -> Rat(3, 1000)
      [] role = "radius" -> Rat(1, 10)
      [] role = "length" -> IntV(5)
      [] role = "dens" -> DENS_CLAY
      [] role = "fd" -> DIAM_FRACTAL
      [] role = "ratio" -> RATIO_HEIGHT_DIAM
      [] role = "fit" -> Rat(1, 2)
      [] role = "temp" -> IntV(293)
      [] role = "time" -> IntV(60)
      [] role = "energy" -> Rat(1, 100)
      [] role = "vel" -> Rat(1, 1000)
      [] role = "flow" -> Rat(1, 1000000)
      [] role = "nom" -> ChemRef("HumicAcid")
      [] OTHER -> ChemRef("PACl")

\* the unit in which a role's documented quantity is measured
RoleUnit(role) ==
    CASE role \in {"conc", "concnom"} -> "kg/m^3"
      [] role \in {"diam", "diaminit", "diamtarget", "tube", "radius", "length"} -> "m"
      [] role = "dens" -> "kg/m^3"
      [] role \in {"fd", "ratio", "fit"} -> "dimensionless"
      [] role = "temp" -> "degK"
      [] role = "time" -> "s"
      [] role = "energy" -> "W/kg"
      [] role = "vel" -> "m/s"
      [] role = "flow" -> "m^3/s"
      [] OTHER -> NoUnit

\* a unit of another dimension
WrongUnit(role) == IF Dim(RoleUnit(role)) = "[length]" THEN "kg/m^3" ELSE "m"

\* the same quantity in another unit of its dimension, where the model has one
Rescaled(role) ==
    CASE role \in {"conc", "concnom"} -> {Quantity(IntV(1), "mg/L")}
      [] role = "diam" -> {Quantity(Rat(7, 1000), "mm")}
      [] role = "diaminit" -> {Quantity(Rat(1, 1000), "mm")}
      [] role = "diamtarget" -> {Quantity(Rat(8, 1000), "mm")}
      [] role = "tube" -> {Quantity(IntV(3), "mm")}
      [] role = "radius" -> {Quantity(IntV(100), "mm")}
      [] role = "length" -> {Quantity(IntV(5000), "mm")}
      [] OTHER -> {}

\* a quantity of another dimension in the parameter's place
Mismatched(role) ==
    IF RoleUnit(role) = NoUnit THEN {} ELSE {Quantity(Base(role), WrongUnit(role))}

\* other values a caller passes for a parameter: the documented quantity (in
\* another unit where the model has one), and the edge values of its role
Alts(role) ==
    IF RoleUnit(role) = NoUnit
    THEN IF role = "nom" THEN {ChemRef("PACl")} ELSE {}
    ELSE (IF Rescaled(role) = {} THEN {Quantity(Base(role), RoleUnit(role))} ELSE Rescaled(role))
         \cup (IF role \in {"conc", "concnom"} THEN {IntV(0), Rat(-1, 1000)} ELSE {})
         \cup (IF role = "concnom" THEN {Rat(1, 100), IntV(1), Rat(2959072, 199719000)} ELSE {})
         \cup (IF role = "fd" THEN {IntV(1), IntV(3)} ELSE {})
         \cup (IF role \in {"ratio", "diaminit"} THEN {IntV(0)} ELSE {})

\* the Chemical objects a caller can pass
Alive == {id \in ChemIds : chem[id].alive}

\* the argument lists drawn for a function whose parameters have these
\* roles: the base values with any Chemical as the coagulant, and, with
\* PACl as the coagulant, one argument off its base value
Inputs(roles) ==
    LET base(c) == [i \in DOMAIN roles |-> IF roles[i] = "coag" THEN ChemRef(c) ELSE Base(roles[i])]
        coags == IF \E i \in DOMAIN roles : roles[i] = "coag" THEN ChemIds ELSE {"PACl"}
    IN  {base(c) : c \in coags}
            \cup UNION {{[base("PACl") EXCEPT ![i] = v] : v \in Alts(roles[i]) \cup Mismatched(roles[i])}
                         : i \in DOMAIN roles}

\* a caller can pass the Chemical objects that exist
Passable(args) == \A i \in DOMAIN args : args[i].t = "chem" => args[i].ref \in Alive

\* no function's result is fixed
Computed == {}

NoCall == [fn |-> "", args |-> <<>>, given |-> Computed, res |-> None]

\* a call that rebinds an attribute of the module's PACl as it runs
ReturnsGivenAssigning(fn, args, given) ==
    /\ last.fn = ""
    /\ Passable(args)
    /\ last' = [fn |-> fn, args |-> args, given |-> given, res |-> Eval(Call(fn, args), given)]
    /\ chem' = [chem EXCEPT !["PACl"].MolecWeight = IntV(1)]

\* the call fn(*args) runs to its outcome; a formula function assigns nothing
ReturnsGiven(fn, args, given) ==
    /\ last.fn = ""
    /\ Passable(args)
    /\ last' = [fn |-> fn, args |-> args, given |-> given, res |-> Eval(Call(fn, args), given)]
    /\ UNCHANGED chem

Returns(fn, args) == ReturnsGiven(fn, args, Computed)

Call_dens_alum_nanocluster ==
    \E a \in Inputs(<<"coag">>) :
        Returns("dens_alum_nanocluster", a)

Call_dens_pacl_solution ==
    \E a \in Inputs(<<"conc", "temp">>) :
        Returns("dens_pacl_solution", a)

Call_conc_precipitate ==
    \E a \in Inputs(<<"conc", "coag">>) :
        Returns("conc_precipitate", a)

Call_conc_floc ==
    \E a \in Inputs(<<"conc", "conc", "coag">>) :
        Returns("conc_floc", a)

Call_moles_aluminum ==
    \E a \in Inputs(<<"conc">>) :
        Returns("moles_aluminum", a)

Call_sep_dist_aluminum ==
    \E a \in Inputs(<<"conc">>) :
        Returns("sep_dist_aluminum", a)

Call_num_clay ==
    \E a \in Inputs(<<"conc", "diam">>) :
        Returns("num_clay", a)

Call_sep_dist_clay ==
    \E a \in Inputs(<<"conc", "diam">>) :
        Returns("sep_dist_clay", a)

Call_num_nanoclusters ==
    \E a \in Inputs(<<"conc", "coag">>) :
        Returns("num_nanoclusters", a)

Call_frac_vol_floc_initial ==
    \E a \in Inputs(<<"conc", "conc", "coag">>) :
        Returns("frac_vol_floc_initial", a)

Call_sep_dist_floc ==
    \E a \in Inputs(<<"conc", "conc", "coag", "fd", "diaminit", "diamtarget">>) :
        Returns("sep_dist_floc", a)

Call_frac_vol_floc ==
    \E a \in Inputs(<<"conc", "conc", "coag", "fd", "diaminit", "diamtarget">>) :
        Returns("frac_vol_floc", a)

Call_dens_floc_init ==
    \E a \in Inputs(<<"conc", "conc", "coag">>) :
        Returns("dens_floc_init", a)

Call_ratio_clay_sphere ==
    \E a \in Inputs(<<"ratio">>) :
        Returns("ratio_clay_sphere", a)

Call_ratio_area_clay_total ==
    \E a \in Inputs(<<"conc", "diam", "tube", "dens", "ratio">>) :
        Returns("ratio_area_clay_total", a)

Call_gamma_coag ==
    \E a \in Inputs(<<"conc", "conc", "coag", "tube", "diam", "dens", "ratio">>) :
        Returns("gamma_coag", a)

Call_gamma_humic_acid_to_coag ==
    \E a \in Inputs(<<"conc", "concnom", "nom", "coag">>) :
        Returns("gamma_humic_acid_to_coag", a)

Call_pacl_term ==
    \E a \in Inputs(<<"tube", "diam", "dens", "conc", "conc", "conc", "nom", "coag", "ratio">>) :
        Returns("pacl_term", a)

Call_alpha_pacl_clay ==
    \E a \in Inputs(<<"tube", "diam", "dens", "conc", "conc", "conc", "nom", "coag", "ratio">>) :
        Returns("alpha_pacl_clay", a)

Call_alpha_pacl_pacl ==
    \E a \in Inputs(<<"tube", "diam", "dens", "conc", "conc", "conc", "nom", "coag", "ratio">>) :
        Returns("alpha_pacl_pacl", a)

Call_alpha_pacl_nat_org_mat ==
    \E a \in Inputs(<<"tube", "diam", "dens", "conc", "conc", "conc", "nom", "coag", "ratio">>) :
        Returns("alpha_pacl_nat_org_mat", a)

Call_alpha ==
    \E a \in Inputs(<<"tube", "diam", "dens", "conc", "conc", "conc", "nom", "coag", "ratio">>) :
        Returns("alpha", a)

Call_pc_viscous ==
    \E a \in Inputs(<<"energy", "temp", "time", "diaminit", "tube", "diam", "dens", "conc", "conc", "conc", "nom", "coag", "fit", "ratio">>) :
        Returns("pc_viscous", a)

Call_dens_floc ==
    \E a \in Inputs(<<"conc", "conc", "fd", "diaminit", "diamtarget", "coag", "temp">>) :
        Returns("dens_floc", a)

Call_vel_term_floc ==
    \E a \in Inputs(<<"conc", "conc", "coag", "fd", "diaminit", "diamtarget", "temp">>) :
        Returns("vel_term_floc", a)

Call_diam_floc_vel_term ==
    \E a \in Inputs(<<"conc", "conc", "coag", "fd", "diaminit", "vel", "temp">>) :
        Returns("diam_floc_vel_term", a)

Call_time_col_laminar ==
    \E a \in Inputs(<<"conc", "conc", "coag", "fd", "diaminit", "diamtarget", "energy", "temp", "tube", "ratio", "dens">>) :
        Returns("time_col_laminar", a)

Call_time_col_turbulent ==
    \E a \in Inputs(<<"conc", "conc", "coag", "fd", "diaminit", "diamtarget", "energy">>) :
        Returns("time_col_turbulent", a)

Call_eta_kolmogorov ==
    \E a \in Inputs(<<"energy", "temp">>) :
        Returns("eta_kolmogorov", a)

Call_lambda_vel ==
    \E a \in Inputs(<<"energy", "temp">>) :
        Returns("lambda_vel", a)

Call_diam_kolmogorov ==
    \E a \in Inputs(<<"conc", "conc", "coag", "diaminit", "fd", "energy", "temp">>) :
        Returns("diam_kolmogorov", a)

Call_diam_vel ==
    \E a \in Inputs(<<"conc", "conc", "coag", "diaminit", "fd", "energy", "temp">>) :
        Returns("diam_vel", a)

Call_diam_floc_max ==
    \E a \in Inputs(<<"energy">>) :
        Returns("diam_floc_max", a)

Call_ener_dis_diam_floc ==
    \E a \in Inputs(<<"diam">>) :
        Returns("ener_dis_diam_floc", a)

Call_g_straight ==
    \E a \in Inputs(<<"flow", "tube">>) :
        Returns("g_straight", a)

Call_reynolds_rapid_mix ==
    \E a \in Inputs(<<"flow", "tube", "temp">>) :
        Returns("reynolds_rapid_mix", a)

Call_dean_number ==
    \E a \in Inputs(<<"flow", "tube", "radius", "temp">>) :
        Returns("dean_number", a)

Call_g_coil ==
    \E a \in Inputs(<<"flow", "tube", "radius", "temp">>) :
        Returns("g_coil", a)

Call_time_res_tube ==
    \E a \in Inputs(<<"tube", "length", "flow">>) :
        Returns("time_res_tube", a)

Call_g_time_res ==
    \E a \in Inputs(<<"flow", "tube", "radius", "length", "temp">>) :
        Returns("g_time_res", a)

(***************************************************************************)
(* The undecorated p and invp and the two fractal functions are drawn over *)
(* every combination of their arguments.                                   *)
(***************************************************************************)
\* collision counts run over -MaxCollisions .. MaxCollisions
MaxCollisions == 2

\* concentrations run over 10^-MaxDecades .. 10^MaxDecades
MaxDecades == 1

FractalDims ==
    {IntV(1), DIAM_FRACTAL, IntV(3), Quantity(IntV(2), "dimensionless")}

InitialDiams ==
    {Rat(1, 1000000), Quantity(Rat(1, 1000), "mm")}

Collisions ==
    {IntV(k) : k \in -MaxCollisions .. MaxCollisions} \cup {Rat(69, 10)}

TargetDiams ==
    {Rat(TwoTo(k), 1000000) : k \in 0 .. MaxCollisions}
        \cup {Rat(1, 1000000 * TwoTo(k)) : k \in 1 .. MaxCollisions}
        \cup {Rat(3, 1000000), Rat(8, 1000000), Quantity(Rat(8, 1000000), "m")}

RECURSIVE TenTo(_)
TenTo(k) == IF k = 0 THEN 1 ELSE 10 * TenTo(k - 1)

Concentrations ==
    {Rat(TenTo(k), 1) : k \in 0 .. MaxDecades} \cup {Rat(1, TenTo(k)) : k \in 1 .. MaxDecades}
        \cup {IntV(0), IntV(2), Quantity(IntV(1), "kg/m^3"), Quantity(IntV(1), "m")}

PValues ==
    {IntV(k) : k \in -MaxDecades .. MaxDecades} \cup {Rat(1, 2)}

Call_p ==
    \E C \in Concentrations, Cprime \in Concentrations :
        Returns("p", <<C, Cprime>>)

Call_invp ==
    \E pC \in PValues, Cprime \in Concentrations :
        Returns("invp", <<pC, Cprime>>)

Call_diam_fractal ==
    \E DiamFractal \in FractalDims, DiamInitial \in InitialDiams, NumCol \in Collisions :
        Returns("diam_fractal", <<DiamFractal, DiamInitial, NumCol>>)

Call_num_coll_reqd ==
    \E DiamFractal \in FractalDims, DiamInit \in InitialDiams, DiamTarget \in TargetDiams :
        Returns("num_coll_reqd", <<DiamFractal, DiamInit, DiamTarget>>)

(***************************************************************************)
(* gamma_coag and gamma_humic_acid_to_coag return floating-point numbers   *)
(* the model knows by their kind only.  alpha and its terms are also       *)
(* called with each of the two fixed to an exact number it can return.     *)
(***************************************************************************)
\* the fixed results run over 0, 1/MaxParts, .. , 1, and one number above 1
MaxParts == 4

Coverages == {Rat(k, MaxParts) : k \in 0 .. MaxParts} \cup {Rat(3, 2)}

AlphaTerms ==
    {"pacl_term", "alpha_pacl_clay", "alpha_pacl_pacl", "alpha_pacl_nat_org_mat", "alpha"}

AlphaRoles == <<"tube", "diam", "dens", "conc", "conc", "conc", "nom", "coag", "ratio">>

Gammas(g, h) == {<<"gamma_coag", g>>, <<"gamma_humic_acid_to_coag", h>>}

Call_alpha_terms ==
    \E fn \in AlphaTerms, g \in Coverages, h \in Coverages :
        ReturnsGiven(fn, [i \in DOMAIN AlphaRoles |-> Base(AlphaRoles[i])], Gammas(g, h))

(***************************************************************************)
(* Chemical objects: construction and define_Precip                        *)
(***************************************************************************)
\* constructor arguments a caller passes: name, diameter, density,
\* molecWeight, Precipitate, AluminumMPM
ChemicalSamples ==
    {<<Str("X"), NanoMetres(288), IntV(1780), Rat(27, 1000), Str("X"), IntV(1)>>,
     <<Str("X"), NanoMetres(288), IntV(1780), Rat(27, 1000), Str("XOH3"), IntV(1)>>}

\* define_Precip arguments a caller passes: diameter, density, molecweight, alumMPM
PrecipSamples ==
    {<<NanoMetres(70), IntV(2420), Rat(78, 1000), IntV(1)>>,
     <<NanoMetres(288), IntV(1780), Rat(27, 1000), IntV(1)>>}

\* X = Chemical(...)
Construct ==
    \E c \in ChemicalSamples :
        /\ last.fn = ""
        /\ chem' = [chem EXCEPT !["X"] = Chemical(c[1], c[2], c[3], c[4], c[5], c[6])]
        /\ last' = [fn |-> "Chemical", args |-> c, given |-> Computed, res |-> ChemRef("X")]

\* X.define_Precip(...): the caller defines the precipitate of its own object
DefinePrecip ==
    \E id \in Alive \ Registry, c \in PrecipSamples :
        /\ last.fn = ""
        /\ chem' = [chem EXCEPT ![id] = define_Precip(chem[id], c[1], c[2], c[3], c[4])]
        /\ last' = [fn |-> "define_Precip", args |-> <<ChemRef(id)>> \o c, given |-> Computed,
                    res |-> None]

\* the caller takes the outcome
Return ==
    /\ last.fn # ""
    /\ last' = NoCall
    /\ UNCHANGED chem

\* the module has been imported: its Chemical definitions have run
Init ==
    /\ chem = [id \in ChemIds |->
                 CASE id = "PACl" -> PACl
                   [] id = "Alum" -> Alum
                   [] id = "HumicAcid" -> HumicAcid
                   [] OTHER -> NoChemical]
    /\ last = NoCall

\* a program that imports the module constructs Chemical objects, defines
\* their precipitates, and calls the functions
Next ==
    \/ Construct
    \/ DefinePrecip
    \/ Return
    \/ Call_dens_alum_nanocluster
    \/ Call_conc_precipitate
    \/ Call_conc_floc
    \/ Call_num_nanoclusters
    \/ Call_frac_vol_floc_initial
    \/ Call_sep_dist_floc
    \/ Call_frac_vol_floc
    \/ Call_dens_floc_init
    \/ Call_gamma_coag
    \/ Call_gamma_humic_acid_to_coag
    \/ Call_pacl_term
    \/ Call_alpha_pacl_clay
    \/ Call_alpha_pacl_pacl
    \/ Call_alpha_pacl_nat_org_mat
    \/ Call_alpha
    \/ Call_pc_viscous
    \/ Call_dens_floc
    \/ Call_vel_term_floc
    \/ Call_diam_floc_vel_term
    \/ Call_time_col_laminar
    \/ Call_time_col_turbulent
    \/ Call_diam_kolmogorov
    \/ Call_diam_vel
    \/ Call_p
    \/ Call_invp
    \/ Call_diam_fractal
    \/ Call_num_coll_reqd
    \/ Call_dens_pacl_solution
    \/ Call_moles_aluminum
    \/ Call_sep_dist_aluminum
    \/ Call_num_clay
    \/ Call_sep_dist_clay
    \/ Call_ratio_clay_sphere
    \/ Call_ratio_area_clay_total
    \/ Call_eta_kolmogorov
    \/ Call_lambda_vel
    \/ Call_diam_floc_max
    \/ Call_ener_dis_diam_floc
    \/ Call_g_straight
    \/ Call_reynolds_rapid_mix
    \/ Call_dean_number
    \/ Call_g_coil
    \/ Call_time_res_tube
    \/ Call_g_time_res
    \/ Call_alpha_terms

Spec == Init /\ [][Next]_vars

(***************************************************************************)
(* Properties                                                              *)
(***************************************************************************)
\* the precipitate attributes of a Chemical equal its own attributes
OwnPrecipitate(c) ==
    /\ c.PrecipName = c.name
    /\ c.PrecipDiameter = c.Diameter
    /\ c.PrecipDensity = c.Density
    /\ c.PrecipMolecWeight = c.MolecWeight
    /\ c.PrecipAluminumMPM = c.AluminumMPM

\* C1: a Chemical constructed with a precipitate name equal to its own name
\* has, as soon as the constructor returns, a precipitate name, diameter,
\* density, molecular weight and aluminum content equal to its own; so have
\* the self-precipitating Chemicals of the registry when the module is imported
C1_SelfPrecipitating ==
    /\ last.fn = "Chemical" /\ last.args[5] = last.args[1] => OwnPrecipitate(chem[last.res.ref])
    /\ OwnPrecipitate(PACl)
    /\ OwnPrecipitate(HumicAcid)

\* a self-precipitating Chemical has just been constructed
C1_Constructed ==
    /\ last.fn = "Chemical"
    /\ last.args[5] = last.args[1]
    /\ chem[last.res.ref].PrecipDiameter = NanoMetres(288)

\* the functions that read a precipitate attribute of their coagulant, and
\* the functions that call one of them
PrecipitateDependent ==
    {"dens_alum_nanocluster", "conc_precipitate", "conc_floc", "num_nanoclusters",
     "frac_vol_floc_initial", "sep_dist_floc", "frac_vol_floc", "dens_floc_init", "gamma_coag",
     "gamma_humic_acid_to_coag", "pacl_term", "alpha_pacl_clay", "alpha_pacl_pacl",
     "alpha_pacl_nat_org_mat", "alpha", "pc_viscous", "dens_floc", "vel_term_floc",
     "diam_floc_vel_term", "time_col_laminar", "time_col_turbulent", "diam_kolmogorov",
     "diam_vel"}

\* the Chemical was constructed with a precipitate name other than its own
\* name, and define_Precip has not been called on it
UndefinedPrecipitate(c) ==
    /\ c.alive
    /\ c.Precip # c.name
    /\ c.PrecipDiameter = Unset /\ c.PrecipDensity = Unset
    /\ c.PrecipMolecWeight = Unset /\ c.PrecipAluminumMPM = Unset

\* the last call passed the Chemical id, and every other argument at its base value
PassedAsCoagulant(id) ==
    /\ last.fn \in PrecipitateDependent
    /\ \E i \in DOMAIN last.args : last.args[i] = ChemRef(id)

\* C2: a precipitate-dependent function called on a Chemical whose
\* precipitate was declared distinct and never defined fails, and returns
\* no value; the failure is the AttributeError Python raises on reading the
\* precipitate attribute that was never assigned
C2_UndefinedPrecipitateFails ==
    \A id \in ChemIds :
        UndefinedPrecipitate(chem[id]) /\ PassedAsCoagulant(id) => last.res.t = "AttributeError"

\* pc_viscous, which reaches conc_precipitate through the functions it
\* calls, has been called on such a Chemical and has failed
C2_CalledUndefined ==
    /\ UndefinedPrecipitate(chem["X"])
    /\ PassedAsCoagulant("X")
    /\ last.fn = "pc_viscous"
    /\ last.res.t = "AttributeError"

\* the four precipitate attributes of the Chemical have been assigned
PrecipitateSet(c) ==
    /\ c.alive
    /\ c.PrecipDiameter # Unset /\ c.PrecipDensity # Unset
    /\ c.PrecipMolecWeight # Unset /\ c.PrecipAluminumMPM # Unset

\* C3 as stated: the precipitate attributes are set at most once, so a
\* define_Precip call on a Chemical whose precipitate attributes are set (a
\* second call, or a call on a self-precipitating species) alters nothing
C3_SetAtMostOnce ==
    [][\A id \in ChemIds :
           PrecipitateSet(chem[id]) /\ last'.fn = "define_Precip" /\ last'.args[1] = ChemRef(id)
               => chem'[id] = chem[id]]_vars

\* the functions that take no coagulant
OtherFunctions ==
    {"p", "invp", "diam_fractal", "num_coll_reqd", "dens_pacl_solution", "moles_aluminum",
     "sep_dist_aluminum", "num_clay", "sep_dist_clay", "ratio_clay_sphere",
     "ratio_area_clay_total", "eta_kolmogorov", "lambda_vel", "diam_floc_max",
     "ener_dis_diam_floc", "g_straight", "reynolds_rapid_mix", "dean_number", "g_coil",
     "time_res_tube", "g_time_res"}

\* every function of the module but the methods of Chemical
FormulaFunctions == PrecipitateDependent \cup OtherFunctions

\* the dimension the documentation gives the result of a function, for the
\* functions the claim names by kind
DocumentedDim(fn) ==
    CASE fn \in {"sep_dist_aluminum", "sep_dist_clay", "sep_dist_floc", "diam_fractal",
                 "diam_floc_vel_term", "diam_kolmogorov", "diam_vel", "diam_floc_max"} -> "[length]"
      [] fn \in {"time_col_laminar", "time_col_turbulent", "time_res_tube"} -> "[time]"
      [] fn \in {"dens_alum_nanocluster", "dens_pacl_solution", "dens_floc_init", "dens_floc",
                 "conc_precipitate", "conc_floc"} -> "[mass]/[length]^3"
      [] fn \in {"frac_vol_floc_initial", "frac_vol_floc", "gamma_coag",
                 "gamma_humic_acid_to_coag", "alpha_pacl_clay", "alpha_pacl_pacl",
                 "alpha_pacl_nat_org_mat", "alpha"} -> ""
      [] OTHER -> "undocumented"

\* the dimension of a result: that of its unit; a plain number counts as dimensionless
DimOf(v) == IF IsQuantity(v) THEN Dim(v.u) ELSE ""

\* C4 as stated: every function returns a value of the dimension it
\* documents; in particular frac_vol_floc is as dimensionless as
\* frac_vol_floc_initial
C4_DocumentedDimension ==
    DocumentedDim(last.fn) # "undocumented" /\ ~IsExc(last.res)
        => DimOf(last.res) = DocumentedDim(last.fn)

\* the dimension the documentation gives parameter i of a function; "any"
\* where the parameter is no physical quantity
ParamDim(fn, i) ==
    CASE fn = "ratio_clay_sphere" -> ""
      [] fn = "p" -> "[mass]/[length]^3"
      [] fn = "invp" -> IF i = 1 THEN "" ELSE "[mass]/[length]^3"
      [] OTHER -> IF wraps(fn).args[i] = NoUnit THEN "any" ELSE Dim(wraps(fn).args[i])

\* C5 as stated: a call that passes a quantity of another dimension than
\* the parameter's fails with a dimension mismatch (pint's
\* DimensionalityError), for every function, p, invp and ratio_clay_sphere
\* included
C5_RejectsMismatch ==
    last.fn \in FormulaFunctions =>
        \A i \in DOMAIN last.args :
            /\ IsQuantity(last.args[i])
            /\ ParamDim(last.fn, i) # "any"
            /\ Dim(last.args[i].u) # ParamDim(last.fn, i)
            => last.res.t = "DimensionalityError"
\* the positions of the concentrations a function divides by, itself or in
\* a function it calls
Divisors(fn) ==
    CASE fn \in {"sep_dist_clay", "ratio_area_clay_total", "sep_dist_aluminum",
                 "gamma_humic_acid_to_coag", "gamma_coag"} -> {1}
      [] fn = "pc_viscous" -> {8, 9}
      [] OTHER -> {}

\* C8 as stated: a function that divides by a concentration fails with
\* DomainError when that concentration is zero or negative; it raises no
\* division-by-zero error and returns a value only for a strictly positive
\* concentration
C8_DomainErrorNotDivision ==
    \A i \in Divisors(last.fn) :
        IsNum(last.args[i]) /\ Sign(last.args[i]) <= 0 => last.res.t = "DomainError"

\* C9 as stated, its first half: diam_floc_vel_term with a fractal dimension
\* of exactly 1 fails with DomainError, whatever the other arguments
C9_FractalDimOne ==
    last.fn = "diam_floc_vel_term" /\ last.args[4] = IntV(1)
        => last.res.t = "DomainError"
\* what a value passed for a parameter declared in this unit stands for: a
\* quantity is converted, a plain number is taken to be in the unit
InUnit(v, unit) == Quantity(Converter(<<unit>>, <<v>>)[1], unit)

HumicRatio ==
    LET a == Converter(wraps("gamma_humic_acid_to_coag").args, last.args)
        NatOrgMat == chem[a[3].ref]
        coag == chem[a[4].ref]
        precipitate == magnitude(Eval(Call("conc_precipitate", <<a[1], a[4]>>), Computed))
    IN  MulQ(MulQ(DivQ(a[2], precipitate), DivQ(coag.Density, NatOrgMat.Density)),
             DivQ(coag.Diameter, MulQ(IntV(4), NatOrgMat.Diameter)))

\* a call of gamma_humic_acid_to_coag with two Chemical objects and
\* concentrations above zero
HumicCall ==
    /\ last.fn = "gamma_humic_acid_to_coag"
    /\ last.args[3].t = "chem" /\ last.args[4].t = "chem"
    /\ Sign(last.args[1]) = 1 /\ Sign(last.args[2]) = 1

\* C10: gamma_humic_acid_to_coag returns min(r, 1): r where r <= 1, exactly
\* 1 where r >= 1, and so a value in [0, 1]
C10_ClampedRatio ==
    HumicCall /\ IsNum(HumicRatio) =>
        /\ Cmp(HumicRatio, IntV(1)) \in {-1, 0} => last.res = HumicRatio
        /\ Cmp(HumicRatio, IntV(1)) \in {0, 1} => last.res = IntV(1)
        /\ Cmp(last.res, IntV(0)) \in {0, 1} /\ Cmp(last.res, IntV(1)) \in {-1, 0}

\* the ratio is above 1 and the result is 1
C10_Clamped ==
    HumicCall /\ IsNum(HumicRatio) /\ Cmp(HumicRatio, IntV(1)) = 1 /\ last.res = IntV(1)

\* the ratio is below 1 and is the result
C10_Below ==
    HumicCall /\ IsNum(HumicRatio) /\ Cmp(HumicRatio, IntV(1)) = -1 /\ last.res = HumicRatio

\* the ratio is exactly 1, and so is the result
C10_Boundary ==
    HumicCall /\ IsNum(HumicRatio) /\ Cmp(HumicRatio, IntV(1)) = 0 /\ last.res = IntV(1)
\* a number in [0, 1]
Within01(v) == Cmp(v, IntV(0)) \in {0, 1} /\ Cmp(v, IntV(1)) \in {-1, 0}

\* the last call was of alpha or one of its terms, with gamma_coag
\* returning g and gamma_humic_acid_to_coag returning h
AlphaCall(g, h) == last.fn \in AlphaTerms /\ last.given = Gammas(g, h)

\* the three sub-coefficients for the arguments of the last call
SubCoefficients ==
    [fn \in {"alpha_pacl_clay", "alpha_pacl_pacl", "alpha_pacl_nat_org_mat"} |->
        Eval(Call(fn, last.args), last.given)]

\* C11: with gamma_coag and gamma_humic_acid_to_coag both in [0, 1], each
\* of alpha_pacl_clay, alpha_pacl_pacl and alpha_pacl_nat_org_mat lies in
\* [0, 1], and so does their sum, which is alpha
C11_EfficiencyInUnitInterval ==
    \A g, h \in Coverages :
        AlphaCall(g, h) /\ Within01(g) /\ Within01(h) =>
            /\ last.fn # "pacl_term" => Within01(last.res)
            /\ \A fn \in DOMAIN SubCoefficients : Within01(SubCoefficients[fn])
            /\ Within01(AddQ(AddQ(SubCoefficients["alpha_pacl_nat_org_mat"],
                                   SubCoefficients["alpha_pacl_pacl"]),
                              SubCoefficients["alpha_pacl_clay"]))

\* full coverage without organic matter: alpha is 1, the top of the interval
C11_FullCoverage ==
    AlphaCall(IntV(1), IntV(0)) /\ last.fn = "alpha" /\ last.res = IntV(1)

\* the sub-coefficients as the code computes them, from the coverage g of
\* the clay and the organic fraction h, with term = g (1 - h)
CodeTerm(fn, g, h) ==
    LET term == MulQ(g, SubQ(IntV(1), h))
        clay == MulQ(IntV(2), MulQ(term, SubQ(IntV(1), g)))
        pacl == PowQ(term, IntV(2))
        nom == MulQ(MulQ(MulQ(IntV(2), term), g), h)
    IN  CASE fn = "pacl_term" -> term
          [] fn = "alpha_pacl_clay" -> clay
          [] fn = "alpha_pacl_pacl" -> pacl
          [] fn = "alpha_pacl_nat_org_mat" -> nom
          [] fn = "alpha" -> AddQ(AddQ(nom, pacl), clay)

\* the sub-coefficients as the claim gives them, with uncovered = 1 - g
StatedTerm(fn, g, h) ==
    LET uncovered == SubQ(IntV(1), g)
        clay == MulQ(MulQ(IntV(2), uncovered), g)
        pacl == PowQ(uncovered, IntV(2))
        nom == MulQ(MulQ(MulQ(IntV(2), uncovered), g), h)
    IN  CASE fn = "alpha_pacl_clay" -> clay
          [] fn = "alpha_pacl_pacl" -> pacl
          [] fn = "alpha_pacl_nat_org_mat" -> nom
          [] fn = "alpha" -> AddQ(AddQ(nom, pacl), clay)

\* C12, amended: with g = gamma_coag, h = gamma_humic_acid_to_coag and
\* term = g (1 - h), alpha_pacl_clay is 2 term (1 - g), alpha_pacl_pacl is
\* term squared, alpha_pacl_nat_org_mat is 2 term g h, and alpha is the sum
\* of the three
C12_SubCoefficients ==
    \A g, h \in Coverages :
        AlphaCall(g, h) =>
            /\ last.res = CodeTerm(last.fn, g, h)
            /\ last.fn = "alpha" =>
                   last.res = AddQ(AddQ(SubCoefficients["alpha_pacl_nat_org_mat"],
                                        SubCoefficients["alpha_pacl_pacl"]),
                                   SubCoefficients["alpha_pacl_clay"])

\* C12 as stated: alpha_pacl_clay is 2 (1 - g) g, alpha_pacl_pacl is
\* (1 - g) squared, alpha_pacl_nat_org_mat is 2 (1 - g) g h, and alpha is
\* the sum of the three
C12_AsStated ==
    \A g, h \in Coverages :
        AlphaCall(g, h) /\ last.fn # "pacl_term" => last.res = StatedTerm(last.fn, g, h)

\* full coverage without organic matter: alpha_pacl_pacl is 1, the square of
\* the term, where the square of the uncovered fraction is 0
C12_CoagulantOnCoagulant ==
    /\ AlphaCall(IntV(1), IntV(0))
    /\ last.fn = "alpha_pacl_pacl"
    /\ last.res = IntV(1)
    /\ StatedTerm("alpha_pacl_pacl", IntV(1), IntV(0)) = IntV(0)
\* the module's Chemical objects are as the import left them
RegistryAsImported ==
    /\ chem["PACl"] = PACl
    /\ chem["Alum"] = Alum
    /\ chem["HumicAcid"] = HumicAcid

====
